---- MODULE Spec2Model ----
(***************************************************************************)
(* Identity propagation and role-based access control for gRPC calls       *)
(* (pkg/grpc/middleware/firewall) and the user command handlers.           *)
(*                                                                         *)
(* A byte string is a sequence of one-character strings.  Two symbols      *)
(* stand for what has no printable form: BAD is a byte that is not valid   *)
(* UTF-8 (such as 0xFF), REPL is the rune U+FFFD.                          *)
(***************************************************************************)
EXTENDS Integers, Sequences, FiniteSets, TLC

VARIABLES
    role,          \* the role the server interceptor was constructed with
    kind,          \* "unary" or "stream": the shape of the call
    cctx,          \* client: the context the outgoing interceptor is given
    args,          \* client: the other arguments of the outgoing call
    clientPc,      \* client: "idle", "invoking", "aborted", "returned"
    invokerCalls,  \* client: every call made to the invoker / streamer
    invokerRet,    \* client: what the invoker / streamer returned
    clientRet,     \* client: what the outgoing interceptor returned
    sctx,          \* server: the incoming context (ss.Context() for streams)
    sreq,          \* server: req (unary) or <<srv, ss>> (stream)
    serverPc,      \* server: "waiting", "arrived", "done"
    decoded,       \* server: every byte string handed to json.Unmarshal
    handlerCalls,  \* server: every call made to the handler
    handlerRet,    \* server: what the handler returned
    serverRet,     \* server: what the server interceptor returned
    cmd,           \* command handler: the handler and command being run
    cmdPc,         \* command handler: position in the handler's body
    pending,       \* command handler: the values it has yet to send on out
    saveCalls,     \* command handler: number of calls of repository.Save
    steps,         \* command handler: the collaborator calls made, in order
    out,           \* command handler: the values sent on the out channel
    runs           \* command handler: number of handler invocations so far

fwVars  == <<role, kind, cctx, args, clientPc, invokerCalls, invokerRet,
             clientRet, sctx, sreq, serverPc, decoded, handlerCalls,
             handlerRet, serverRet>>
cmdVars == <<cmd, cmdPc, pending, saveCalls, steps, out, runs>>
vars    == <<fwVars, cmdVars>>

-----------------------------------------------------------------------------
(* Bounds *)

\* longest role list of an identity
MaxRoles == 2

\* number of command handler invocations in one behaviour
MaxRuns == 2

-----------------------------------------------------------------------------
(* Byte strings *)

QUOTE  == "\""
BSLASH == "\\"
BAD    == "<xFF>"
REPL   == "<U+FFFD>"
RUNE   == "<rune>"

Nil == "nil"

RECURSIVE Concat(_)
Concat(ss) == IF ss = <<>> THEN <<>> ELSE Head(ss) \o Concat(Tail(ss))

RECURSIVE Join(_, _)
Join(ss, sep) ==
    IF ss = <<>> THEN <<>>
    ELSE IF Len(ss) = 1 THEN Head(ss)
    ELSE Head(ss) \o sep \o Join(Tail(ss), sep)

-----------------------------------------------------------------------------
(* identity.Identity: an opaque attribute and the roles.  A slice is nil  *)
(* or a list; the attribute is a string or a value that has no encoding.  *)

NilSlice     == [isNil |-> TRUE, elems |-> <<>>]
Slice(elems) == [isNil |-> FALSE, elems |-> elems]

Attr(s)     == [encodable |-> TRUE, s |-> s]
Unencodable == [encodable |-> FALSE, s |-> <<>>]

ZeroIdentity == [Attrs |-> Attr(<<>>), Roles |-> NilSlice]

NoIdentity == [present |-> FALSE]

-----------------------------------------------------------------------------
(* json.Marshal *)

ErrMarshal == "json: error calling MarshalJSON"

\* a JSON string literal: the quote and the backslash are escaped, a byte
\* that is not valid UTF-8 is written as the escape of U+FFFD
EncodeChar(c) ==
    IF c = QUOTE THEN <<BSLASH, QUOTE>>
    ELSE IF c = BSLASH THEN <<BSLASH, BSLASH>>
    ELSE IF c = BAD THEN <<BSLASH, "u", "f", "f", "f", "d">>
    ELSE <<c>>

EncodeString(s) ==
    <<QUOTE>> \o Concat([k \in 1..Len(s) |-> EncodeChar(s[k])]) \o <<QUOTE>>

EncodeSlice(sl) ==
    IF sl.isNil THEN <<"n", "u", "l", "l">>
    ELSE <<"[">>
         \o Join([k \in 1..Len(sl.elems) |-> EncodeString(sl.elems[k])], <<",">>)
         \o <<"]">>

Marshal(i) ==
    IF ~i.Attrs.encodable
    THEN [err |-> ErrMarshal, jsn |-> <<>>]
    ELSE [err |-> Nil,
          jsn |-> <<"{", QUOTE, "a", "t", "t", "r", "s", QUOTE, ":">>
                  \o EncodeString(i.Attrs.s)
                  \o <<",", QUOTE, "r", "o", "l", "e", "s", QUOTE, ":">>
                  \o EncodeSlice(i.Roles)
                  \o <<"}">>]

-----------------------------------------------------------------------------
(* json.Unmarshal: the scanner (syntax), then the decoder (types) *)

ErrSyntax == "json: SyntaxError"
ErrType   == "json: UnmarshalTypeError"

Fail == [ok |-> FALSE]

HexDigits == {"0", "1", "2", "3", "4", "5", "6", "7", "8", "9",
              "a", "b", "c", "d", "e", "f", "A", "B", "C", "D", "E", "F"}

Digits == {"0", "1", "2", "3", "4", "5", "6", "7", "8", "9"}

ToLower(c) ==
    CASE c = "A" -> "a" [] c = "B" -> "b" [] c = "C" -> "c" [] c = "D" -> "d"
      [] c = "E" -> "e" [] c = "F" -> "f" [] c = "L" -> "l" [] c = "O" -> "o"
      [] c = "R" -> "r" [] c = "S" -> "s" [] c = "T" -> "t" [] c = "U" -> "u"
      [] OTHER -> c

Fold(s) == [k \in 1..Len(s) |-> ToLower(s[k])]

\* the rune of a \uXXXX escape; runes the model has no symbol for are RUNE
HexRune(h) ==
    LET l == Fold(h) IN
    IF l = <<"f", "f", "f", "d">> THEN REPL
    ELSE IF l = <<"0", "0", "6", "1">> THEN "a"
    ELSE IF l = <<"0", "0", "4", "1">> THEN "A"
    ELSE IF l = <<"0", "0", "2", "2">> THEN QUOTE
    ELSE IF l = <<"0", "0", "5", "c">> THEN BSLASH
    ELSE RUNE

RECURSIVE SkipSpace(_, _)
SkipSpace(s, i) ==
    IF i <= Len(s) /\ s[i] = " " THEN SkipSpace(s, i + 1) ELSE i

\* the body of a string literal from position i, the opening quote consumed
RECURSIVE ScanString(_, _, _)
ScanString(s, i, acc) ==
    IF i > Len(s) THEN Fail
    ELSE IF s[i] = QUOTE THEN [ok |-> TRUE, v |-> acc, i |-> i + 1]
    ELSE IF s[i] = BSLASH THEN
        IF i + 1 > Len(s) THEN Fail
        ELSE IF s[i + 1] \in {QUOTE, BSLASH, "/"}
             THEN ScanString(s, i + 2, Append(acc, s[i + 1]))
        ELSE IF s[i + 1] = "u" THEN
            IF i + 5 <= Len(s) /\ \A k \in (i + 2)..(i + 5) : s[k] \in HexDigits
            THEN ScanString(s, i + 6,
                            Append(acc, HexRune(SubSeq(s, i + 2, i + 5))))
            ELSE Fail
        ELSE Fail
    ELSE IF s[i] = BAD THEN ScanString(s, i + 1, Append(acc, REPL))
    ELSE ScanString(s, i + 1, Append(acc, s[i]))

\* the end of a number starting at i: 0, or a digit 1-9 and more digits
RECURSIVE ScanDigits(_, _)
ScanDigits(s, i) ==
    IF i <= Len(s) /\ s[i] \in Digits THEN ScanDigits(s, i + 1) ELSE i

ScanNumber(s, i) == IF s[i] = "0" THEN i + 1 ELSE ScanDigits(s, i + 1)

IsLiteral(s, i, lit) ==
    /\ i + Len(lit) - 1 <= Len(s)
    /\ SubSeq(s, i, i + Len(lit) - 1) = lit

RECURSIVE ScanValue(_, _)
RECURSIVE ScanElements(_, _, _)
RECURSIVE ScanMembers(_, _, _)

\* the elements of an array from position i, the first one expected at i
ScanElements(s, i, acc) ==
    LET e == ScanValue(s, i) IN
    IF ~e.ok THEN Fail
    ELSE LET j == SkipSpace(s, e.i) IN
         IF j > Len(s) THEN Fail
         ELSE IF s[j] = "," THEN ScanElements(s, j + 1, Append(acc, e.v))
         ELSE IF s[j] = "]"
              THEN [ok |-> TRUE, v |-> [t |-> "array", elems |-> Append(acc, e.v)],
                    i |-> j + 1]
         ELSE Fail

\* the members of an object from position i, the first key expected at i
ScanMembers(s, i, acc) ==
    LET k == SkipSpace(s, i) IN
    IF k > Len(s) \/ s[k] # QUOTE THEN Fail
    ELSE LET key == ScanString(s, k + 1, <<>>) IN
         IF ~key.ok THEN Fail
         ELSE LET c == SkipSpace(s, key.i) IN
              IF c > Len(s) \/ s[c] # ":" THEN Fail
              ELSE LET e == ScanValue(s, c + 1) IN
                   IF ~e.ok THEN Fail
                   ELSE LET j == SkipSpace(s, e.i)
                            m == Append(acc, [key |-> key.v, val |-> e.v])
                        IN  IF j > Len(s) THEN Fail
                            ELSE IF s[j] = "," THEN ScanMembers(s, j + 1, m)
                            ELSE IF s[j] = "}"
                                 THEN [ok |-> TRUE,
                                       v |-> [t |-> "object", members |-> m],
                                       i |-> j + 1]
                            ELSE Fail

ScanValue(s, i0) ==
    LET i == SkipSpace(s, i0) IN
    IF i > Len(s) THEN Fail
    ELSE IF s[i] = QUOTE THEN
        LET r == ScanString(s, i + 1, <<>>) IN
        IF r.ok THEN [ok |-> TRUE, v |-> [t |-> "string", s |-> r.v], i |-> r.i]
        ELSE Fail
    ELSE IF s[i] \in Digits THEN
        [ok |-> TRUE, v |-> [t |-> "number"], i |-> ScanNumber(s, i)]
    ELSE IF IsLiteral(s, i, <<"n", "u", "l", "l">>) THEN
        [ok |-> TRUE, v |-> [t |-> "null"], i |-> i + 4]
    ELSE IF IsLiteral(s, i, <<"t", "r", "u", "e">>) THEN
        [ok |-> TRUE, v |-> [t |-> "bool"], i |-> i + 4]
    ELSE IF s[i] = "[" THEN
        LET j == SkipSpace(s, i + 1) IN
        IF j <= Len(s) /\ s[j] = "]"
        THEN [ok |-> TRUE, v |-> [t |-> "array", elems |-> <<>>], i |-> j + 1]
        ELSE ScanElements(s, j, <<>>)
    ELSE IF s[i] = "{" THEN
        LET j == SkipSpace(s, i + 1) IN
        IF j <= Len(s) /\ s[j] = "}"
        THEN [ok |-> TRUE, v |-> [t |-> "object", members |-> <<>>], i |-> j + 1]
        ELSE ScanMembers(s, j, <<>>)
    ELSE Fail

\* the whole input is one JSON value, spaces around it allowed
Scan(s) ==
    LET r == ScanValue(s, 1) IN
    IF r.ok /\ SkipSpace(s, r.i) = Len(s) + 1 THEN r ELSE Fail

\* a JSON value stored into a Go string: null leaves it, a string sets it
DecodeString(old, v) ==
    IF v.t = "null" THEN [err |-> Nil, s |-> old]
    ELSE IF v.t = "string" THEN [err |-> Nil, s |-> v.s]
    ELSE [err |-> ErrType, s |-> old]

\* a JSON value stored into a []string: null makes it nil, an array
\* replaces it, element by element
DecodeSlice(old, v) ==
    IF v.t = "null" THEN [err |-> Nil, sl |-> NilSlice]
    ELSE IF v.t = "array" THEN
        LET es == [k \in 1..Len(v.elems) |-> DecodeString(<<>>, v.elems[k])]
            bad == {k \in 1..Len(es) : es[k].err # Nil}
        IN  [err |-> IF bad = {} THEN Nil ELSE ErrType,
             sl  |-> Slice([k \in 1..Len(es) |-> es[k].s])]
    ELSE [err |-> ErrType, sl |-> old]

FirstErr(e1, e2) == IF e1 # Nil THEN e1 ELSE e2

\* the members of an object stored into an Identity, in order; a key
\* matches a field name whatever its case, other keys are skipped, and the
\* first type error is kept while decoding goes on
RECURSIVE DecodeMembers(_, _, _)
DecodeMembers(ms, i, err) ==
    IF ms = <<>> THEN [err |-> err, i |-> i]
    ELSE LET m == Head(ms) IN
         IF Fold(m.key) = <<"r", "o", "l", "e", "s">> THEN
            LET d == DecodeSlice(i.Roles, m.val) IN
            DecodeMembers(Tail(ms), [i EXCEPT !.Roles = d.sl], FirstErr(err, d.err))
         ELSE IF Fold(m.key) = <<"a", "t", "t", "r", "s">> THEN
            LET d == DecodeString(i.Attrs.s, m.val) IN
            DecodeMembers(Tail(ms), [i EXCEPT !.Attrs = Attr(d.s)],
                          FirstErr(err, d.err))
         ELSE DecodeMembers(Tail(ms), i, err)

Unmarshal(data, i) ==
    LET r == Scan(data) IN
    IF ~r.ok THEN [err |-> ErrSyntax, i |-> i]
    ELSE IF r.v.t = "null" THEN [err |-> Nil, i |-> i]
    ELSE IF r.v.t = "object" THEN DecodeMembers(r.v.members, i, Nil)
    ELSE [err |-> ErrType, i |-> i]

-----------------------------------------------------------------------------
(* Contexts and metadata *)

mdIdentityKey == "identity"

ErrInvalidRole == "rpc error: code = PermissionDenied desc = Invalid role"

\* metadata.MD: the key/value pairs in the order they were added
NoMD    == [present |-> FALSE, kvs |-> <<>>]
MD(kvs) == [present |-> TRUE, kvs |-> kvs]

KV(k, v) == [k |-> k, v |-> v]

\* md.Get(key): the values under the key, in order
RECURSIVE Get(_, _)
Get(kvs, key) ==
    IF kvs = <<>> THEN <<>>
    ELSE IF Head(kvs).k = key THEN <<Head(kvs).v>> \o Get(Tail(kvs), key)
    ELSE Get(Tail(kvs), key)

\* a context.Context: the identity value and the two metadata values
Ctx(i, incoming, outgoing) ==
    [identity |-> i, incoming |-> incoming, outgoing |-> outgoing]

FromContext(ctx) == [ok |-> ctx.identity # NoIdentity, i |-> ctx.identity]

ContextWithIdentity(ctx, i) == [ctx EXCEPT !.identity = i]

AppendToOutgoingContext(ctx, k, v) ==
    [ctx EXCEPT !.outgoing = MD(Append(@.kvs, KV(k, v)))]

FromIncomingContext(ctx) == [ok |-> ctx.incoming.present, md |-> ctx.incoming.kvs]

-----------------------------------------------------------------------------
(* The outgoing interceptors.  iret is what the invoker (streamer) returns *)
(* when it is called; the result lists the calls made to it and the value  *)
(* the interceptor returns.                                                *)

\* variant: an absent identity is serialized and attached all the same
AppendIdentityToOutgoingUnaryContext_AlwaysAppend(ctx, a, iret) ==
    LET f == FromContext(ctx)
        m == IF f.ok THEN Marshal(f.i) ELSE [err |-> Nil, jsn |-> <<"n", "u", "l", "l">>]
    IN  IF m.err # Nil THEN [calls |-> <<>>, ret |-> [err |-> m.err]]
        ELSE [calls |-> <<[ctx  |-> AppendToOutgoingContext(ctx, mdIdentityKey, m.jsn),
                           args |-> a]>>,
              ret   |-> iret]

\* variant: the identity is attached under another key
AppendIdentityToOutgoingUnaryContext_OtherKey(ctx, a, iret) ==
    LET f == FromContext(ctx) IN
    IF f.ok THEN
        LET m == Marshal(f.i) IN
        IF m.err # Nil THEN [calls |-> <<>>, ret |-> [err |-> m.err]]
        ELSE [calls |-> <<[ctx  |-> AppendToOutgoingContext(ctx, "Identity", m.jsn),
                           args |-> a]>>,
              ret   |-> iret]
    ELSE [calls |-> <<[ctx |-> ctx, args |-> a]>>, ret |-> iret]

AppendIdentityToOutgoingUnaryContext(ctx, a, iret) ==
    LET f == FromContext(ctx) IN
    IF f.ok THEN
        LET m == Marshal(f.i) IN
        IF m.err # Nil THEN [calls |-> <<>>, ret |-> [err |-> m.err]]
        ELSE [calls |-> <<[ctx  |-> AppendToOutgoingContext(ctx, mdIdentityKey, m.jsn),
                           args |-> a]>>,
              ret   |-> iret]
    ELSE [calls |-> <<[ctx |-> ctx, args |-> a]>>, ret |-> iret]

\* variant: the serialization error is dropped and the call goes on
AppendIdentityToOutgoingStreamContext_IgnoreError(ctx, a, iret) ==
    LET f == FromContext(ctx) IN
    IF f.ok THEN
        [calls |-> <<[ctx  |-> AppendToOutgoingContext(ctx, mdIdentityKey,
                                                        Marshal(f.i).jsn),
                      args |-> a]>>,
         ret   |-> iret]
    ELSE [calls |-> <<[ctx |-> ctx, args |-> a]>>, ret |-> iret]

AppendIdentityToOutgoingStreamContext(ctx, a, iret) ==
    LET f == FromContext(ctx) IN
    IF f.ok THEN
        LET m == Marshal(f.i) IN
        IF m.err # Nil THEN [calls |-> <<>>, ret |-> [cs |-> Nil, err |-> m.err]]
        ELSE [calls |-> <<[ctx  |-> AppendToOutgoingContext(ctx, mdIdentityKey, m.jsn),
                           args |-> a]>>,
              ret   |-> iret]
    ELSE [calls |-> <<[ctx |-> ctx, args |-> a]>>, ret |-> iret]

-----------------------------------------------------------------------------
(* The server interceptors.  hret is what the handler returns when it is   *)
(* called; the result lists the byte strings handed to json.Unmarshal, the *)
(* calls made to the handler and the value the interceptor returns.        *)

\* for _, userRole := range roles { if userRole == role { return TRUE } }
RECURSIVE RangeRoles(_, _)
RangeRoles(roles, r) ==
    IF roles = <<>> THEN FALSE
    ELSE IF Head(roles) = r THEN TRUE
    ELSE RangeRoles(Tail(roles), r)

\* variant: roles are compared whatever their case
RECURSIVE RangeRolesFold(_, _)
RangeRolesFold(roles, r) ==
    IF roles = <<>> THEN FALSE
    ELSE IF Fold(Head(roles)) = Fold(r) THEN TRUE
    ELSE RangeRolesFold(Tail(roles), r)

GrantAccessForStreamRequest_FoldCase(r, srv, ss, hret) ==
    LET md     == FromIncomingContext(ss.ctx)
        values == IF md.ok THEN Get(md.md, mdIdentityKey) ELSE <<>>
        deny   == [decoded |-> <<>>, calls |-> <<>>, ret |-> [err |-> ErrInvalidRole]]
    IN  IF md.ok /\ Len(values) > 0 THEN
            LET u == Unmarshal(values[1], ZeroIdentity) IN
            IF u.err # Nil
            THEN [decoded |-> <<values[1]>>, calls |-> <<>>, ret |-> [err |-> u.err]]
            ELSE IF RangeRolesFold(u.i.Roles.elems, r)
            THEN [decoded |-> <<values[1]>>,
                  calls   |-> <<[srv |-> srv, ss |-> ss]>>,
                  ret     |-> hret]
            ELSE [deny EXCEPT !.decoded = <<values[1]>>]
        ELSE deny

\* variant: a decode error is answered with the denial
GrantAccessForStreamRequest_Collapsed(r, srv, ss, hret) ==
    LET md     == FromIncomingContext(ss.ctx)
        values == IF md.ok THEN Get(md.md, mdIdentityKey) ELSE <<>>
        deny   == [decoded |-> <<>>, calls |-> <<>>, ret |-> [err |-> ErrInvalidRole]]
    IN  IF md.ok /\ Len(values) > 0 THEN
            LET u == Unmarshal(values[1], ZeroIdentity) IN
            IF u.err = Nil /\ RangeRoles(u.i.Roles.elems, r)
            THEN [decoded |-> <<values[1]>>,
                  calls   |-> <<[srv |-> srv, ss |-> ss]>>,
                  ret     |-> hret]
            ELSE [deny EXCEPT !.decoded = <<values[1]>>]
        ELSE deny

\* variant: the decoded identity is attached to the stream's context
GrantAccessForStreamRequest_Attached(r, srv, ss, hret) ==
    LET md     == FromIncomingContext(ss.ctx)
        values == IF md.ok THEN Get(md.md, mdIdentityKey) ELSE <<>>
        deny   == [decoded |-> <<>>, calls |-> <<>>, ret |-> [err |-> ErrInvalidRole]]
    IN  IF md.ok /\ Len(values) > 0 THEN
            LET u == Unmarshal(values[1], ZeroIdentity) IN
            IF u.err # Nil
            THEN [decoded |-> <<values[1]>>, calls |-> <<>>, ret |-> [err |-> u.err]]
            ELSE IF RangeRoles(u.i.Roles.elems, r)
            THEN [decoded |-> <<values[1]>>,
                  calls   |-> <<[srv |-> srv,
                                 ss  |-> [ss EXCEPT !.ctx = ContextWithIdentity(@, u.i)]]>>,
                  ret     |-> hret]
            ELSE [deny EXCEPT !.decoded = <<values[1]>>]
        ELSE deny

GrantAccessForStreamRequest(r, srv, ss, hret) ==
    LET md     == FromIncomingContext(ss.ctx)
        values == IF md.ok THEN Get(md.md, mdIdentityKey) ELSE <<>>
        deny   == [decoded |-> <<>>, calls |-> <<>>, ret |-> [err |-> ErrInvalidRole]]
    IN  IF md.ok /\ Len(values) > 0 THEN
            LET u == Unmarshal(values[1], ZeroIdentity) IN
            IF u.err # Nil
            THEN [decoded |-> <<values[1]>>, calls |-> <<>>, ret |-> [err |-> u.err]]
            ELSE IF RangeRoles(u.i.Roles.elems, r)
            THEN [decoded |-> <<values[1]>>,
                  calls   |-> <<[srv |-> srv, ss |-> ss]>>,
                  ret     |-> hret]
            ELSE [deny EXCEPT !.decoded = <<values[1]>>]
        ELSE deny

\* variant: the handler is given the context as it came
GrantAccessForUnaryRequest_PlainContext(r, ctx, req, hret) ==
    LET md     == FromIncomingContext(ctx)
        values == IF md.ok THEN Get(md.md, mdIdentityKey) ELSE <<>>
        deny   == [decoded |-> <<>>, calls |-> <<>>,
                   ret |-> [resp |-> Nil, err |-> ErrInvalidRole]]
    IN  IF md.ok /\ Len(values) > 0 THEN
            LET u == Unmarshal(values[1], ZeroIdentity) IN
            IF u.err # Nil
            THEN [decoded |-> <<values[1]>>, calls |-> <<>>,
                  ret |-> [resp |-> Nil, err |-> u.err]]
            ELSE IF RangeRoles(u.i.Roles.elems, r)
            THEN [decoded |-> <<values[1]>>,
                  calls   |-> <<[ctx |-> ctx, req |-> req]>>,
                  ret     |-> hret]
            ELSE [deny EXCEPT !.decoded = <<values[1]>>]
        ELSE deny

\* variant: with no value under the key, the empty string is decoded
GrantAccessForUnaryRequest_DecodeMissing(r, ctx, req, hret) ==
    LET md     == FromIncomingContext(ctx)
        values == IF md.ok THEN Get(md.md, mdIdentityKey) ELSE <<>>
        value  == IF Len(values) > 0 THEN values[1] ELSE <<>>
        deny   == [decoded |-> <<>>, calls |-> <<>>,
                   ret |-> [resp |-> Nil, err |-> ErrInvalidRole]]
    IN  IF md.ok THEN
            LET u == Unmarshal(value, ZeroIdentity) IN
            IF u.err # Nil
            THEN [decoded |-> <<value>>, calls |-> <<>>,
                  ret |-> [resp |-> Nil,
                           err  |-> IF Len(values) > 0 THEN u.err ELSE ErrInvalidRole]]
            ELSE IF RangeRoles(u.i.Roles.elems, r)
            THEN [decoded |-> <<value>>,
                  calls   |-> <<[ctx |-> ContextWithIdentity(ctx, u.i), req |-> req]>>,
                  ret     |-> hret]
            ELSE [deny EXCEPT !.decoded = <<value>>]
        ELSE deny

\* variant: the last value under the key is the one decoded
GrantAccessForUnaryRequest_LastValue(r, ctx, req, hret) ==
    LET md     == FromIncomingContext(ctx)
        values == IF md.ok THEN Get(md.md, mdIdentityKey) ELSE <<>>
        deny   == [decoded |-> <<>>, calls |-> <<>>,
                   ret |-> [resp |-> Nil, err |-> ErrInvalidRole]]
    IN  IF md.ok /\ Len(values) > 0 THEN
            LET u == Unmarshal(values[Len(values)], ZeroIdentity) IN
            IF u.err # Nil
            THEN [decoded |-> <<values[Len(values)]>>, calls |-> <<>>,
                  ret |-> [resp |-> Nil, err |-> u.err]]
            ELSE IF RangeRoles(u.i.Roles.elems, r)
            THEN [decoded |-> <<values[Len(values)]>>,
                  calls   |-> <<[ctx |-> ContextWithIdentity(ctx, u.i), req |-> req]>>,
                  ret     |-> hret]
            ELSE [deny EXCEPT !.decoded = <<values[Len(values)]>>]
        ELSE deny

GrantAccessForUnaryRequest(r, ctx, req, hret) ==
    LET md     == FromIncomingContext(ctx)
        values == IF md.ok THEN Get(md.md, mdIdentityKey) ELSE <<>>
        deny   == [decoded |-> <<>>, calls |-> <<>>,
                   ret |-> [resp |-> Nil, err |-> ErrInvalidRole]]
    IN  IF md.ok /\ Len(values) > 0 THEN
            LET u == Unmarshal(values[1], ZeroIdentity) IN
            IF u.err # Nil
            THEN [decoded |-> <<values[1]>>, calls |-> <<>>,
                  ret |-> [resp |-> Nil, err |-> u.err]]
            ELSE IF RangeRoles(u.i.Roles.elems, r)
            THEN [decoded |-> <<values[1]>>,
                  calls   |-> <<[ctx |-> ContextWithIdentity(ctx, u.i), req |-> req]>>,
                  ret     |-> hret]
            ELSE [deny EXCEPT !.decoded = <<values[1]>>]
        ELSE deny

-----------------------------------------------------------------------------
(* The user command handlers.  env holds what the collaborators return:    *)
(* uuid.NewRandom (idErr), the aggregate's method (aggErr) and              *)
(* repository.Save (saveErr).  The result lists the collaborator calls in  *)
(* order and the values sent on out.                                       *)

Call(f, a) == [f |-> f, a |-> a]

NewID == "id"

OnChangeEmailAddress(c, env) ==
    LET s == <<Call("repository.Get", c.ID),
               Call("u.ChangeEmailAddress", c.Email)>>
    IN  IF env.aggErr # Nil THEN [steps |-> s, sends |-> <<env.aggErr>>]
        ELSE [steps |-> Append(s, Call("repository.Save", "LIVE")),
              sends |-> <<env.saveErr>>]

OnRegisterWithEmail(c, env) ==
    LET s1 == <<Call("uuid.NewRandom", Nil)>>
        s2 == Append(s1, Call("u.RegisterWithEmail", <<NewID, c.Email>>))
    IN  IF env.idErr # Nil THEN [steps |-> s1, sends |-> <<env.idErr>>]
        ELSE IF env.aggErr # Nil THEN [steps |-> s2, sends |-> <<env.aggErr>>]
        ELSE [steps |-> Append(s2, Call("repository.Save", "LIVE")),
              sends |-> <<env.saveErr>>]

\* variant: no return after the aggregate's error is sent
OnRegisterWithFacebook_NoReturn(c, env) ==
    LET s1 == <<Call("uuid.NewRandom", Nil)>>
        s2 == Append(s1, Call("u.RegisterWithFacebook", <<NewID, c.Email>>))
    IN  IF env.idErr # Nil THEN [steps |-> s1, sends |-> <<env.idErr>>]
        ELSE [steps |-> Append(s2, Call("repository.Save", "LIVE")),
              sends |-> IF env.aggErr # Nil THEN <<env.aggErr, env.saveErr>>
                        ELSE <<env.saveErr>>]

OnRegisterWithFacebook(c, env) ==
    LET s1 == <<Call("uuid.NewRandom", Nil)>>
        s2 == Append(s1, Call("u.RegisterWithFacebook", <<NewID, c.Email>>))
    IN  IF env.idErr # Nil THEN [steps |-> s1, sends |-> <<env.idErr>>]
        ELSE IF env.aggErr # Nil THEN [steps |-> s2, sends |-> <<env.aggErr>>]
        ELSE [steps |-> Append(s2, Call("repository.Save", "LIVE")),
              sends |-> <<env.saveErr>>]

OnRegisterWithGoogle(c, env) ==
    LET s1 == <<Call("uuid.NewRandom", Nil)>>
        s2 == Append(s1, Call("u.RegisterWithGoogle", <<NewID, c.Email>>))
    IN  IF env.idErr # Nil THEN [steps |-> s1, sends |-> <<env.idErr>>]
        ELSE IF env.aggErr # Nil THEN [steps |-> s2, sends |-> <<env.aggErr>>]
        ELSE [steps |-> Append(s2, Call("repository.Save", "LIVE")),
              sends |-> <<env.saveErr>>]

-----------------------------------------------------------------------------
(* Inputs *)

RoleStrings == {<<"a">>, <<"A">>, <<BAD>>, <<REPL>>, <<BSLASH, QUOTE>>}

RoleLists ==
    {NilSlice} \cup
    {Slice(l) : l \in UNION {[1..n -> RoleStrings] : n \in 0..MaxRoles}}

Identities == [Attrs : {Attr(<<"a">>), Unencodable}, Roles : RoleLists]

AdminJSON == Marshal([Attrs |-> Attr(<<>>), Roles |-> Slice(<<<<"a">>>>)]).jsn

\* the outgoing metadata a client context may already hold
PriorMDs ==
    {NoMD,
     MD(<<KV("trace", <<"1">>)>>),
     MD(<<KV(mdIdentityKey, AdminJSON)>>),
     MD(<<KV(mdIdentityKey, <<"{">>)>>)}

ClientContexts ==
    {Ctx(i, NoMD, md) : i \in Identities \cup {NoIdentity}, md \in PriorMDs}

CallArgs == {"/user/Get", "/user/List"}

InvokerResults  == {[err |-> Nil], [err |-> "rpc error: Unavailable"]}
StreamerResults == {[cs |-> "clientStream", err |-> Nil],
                    [cs |-> Nil, err |-> "rpc error: Unavailable"]}

UnaryHandlerResults == {[resp |-> "reply", err |-> Nil],
                        [resp |-> Nil, err |-> "handler error"],
                        [resp |-> "partial", err |-> "handler error"]}
StreamHandlerResults == {[err |-> Nil], [err |-> "handler error"]}

\* "roles" as the bytes of a key, and the values a client that does not
\* use the outgoing interceptor may put under the key
RolesKey(k) == <<"{", QUOTE>> \o k \o <<QUOTE, ":">>

LowerKey == <<"r", "o", "l", "e", "s">>

RawValues ==
    {<<>>,
     <<"n", "u", "l", "l">>,
     <<"{", "}">>,
     <<"[", "]">>,
     <<"1">>,
     <<"{">>,
     AdminJSON,
     RolesKey(LowerKey) \o <<"[", QUOTE, "a", QUOTE>>,
     RolesKey(LowerKey) \o <<"[", QUOTE, "a", QUOTE, "]", "}", "}">>,
     RolesKey(LowerKey) \o <<QUOTE, "a", QUOTE, "}">>,
     RolesKey(LowerKey) \o <<"[", "1", ",", QUOTE, "a", QUOTE, "]", "}">>,
     RolesKey(LowerKey) \o <<"[", "n", "u", "l", "l", ",", QUOTE, "A", QUOTE, "]", "}">>,
     RolesKey(LowerKey) \o <<"n", "u", "l", "l", "}">>,
     RolesKey(<<"R", "O", "L", "E", "S">>) \o <<"[", QUOTE, "A", QUOTE, "]", "}">>,
     RolesKey(<<"x">>) \o <<"t", "r", "u", "e", ",", QUOTE>> \o LowerKey
        \o <<QUOTE, " ", ":", " ", "[", " ", QUOTE, BSLASH, "u", "0", "0", "6", "1",
             QUOTE, " ", "]", " ", "}", " ">>,
     RolesKey(LowerKey) \o <<"[", QUOTE, "a", QUOTE, "]", ",", QUOTE>> \o LowerKey
        \o <<QUOTE, ":", "[", QUOTE, "A", QUOTE, "]", "}">>,
     RolesKey(LowerKey) \o <<"[", QUOTE, BAD, QUOTE, ",", QUOTE, BSLASH, BSLASH,
                              BSLASH, QUOTE, QUOTE, "]", "}">>,
     RolesKey(LowerKey) \o <<"[", QUOTE, BSLASH, "x", QUOTE, "]", "}">>}

SecondValues == {AdminJSON, <<"{">>}

RawMDs ==
    {NoMD, MD(<<>>), MD(<<KV("trace", <<"1">>)>>)}
    \cup {MD(<<KV(mdIdentityKey, v)>>) : v \in RawValues}
    \cup {MD(<<KV(mdIdentityKey, v), KV("trace", <<"1">>), KV(mdIdentityKey, w)>>) :
            v \in RawValues, w \in SecondValues}

Emails == {"a@x", "not-an-email"}
UserIDs == {"u1", "u2"}

Envs == [idErr   : {Nil, "rand: read failed"},
         aggErr  : {Nil, "aggregate error"},
         saveErr : {Nil, "save error"}]

-----------------------------------------------------------------------------
(* State *)

NoRet == [called |-> FALSE]
NoCmd == [handler |-> Nil]

FwIdle ==
    /\ cctx = Ctx(NoIdentity, NoMD, NoMD)
    /\ args = Nil
    /\ clientPc = "idle"
    /\ invokerCalls = <<>>
    /\ invokerRet = NoRet
    /\ clientRet = NoRet
    /\ sctx = Ctx(NoIdentity, NoMD, NoMD)
    /\ sreq = Nil
    /\ serverPc = "waiting"
    /\ decoded = <<>>
    /\ handlerCalls = <<>>
    /\ handlerRet = NoRet
    /\ serverRet = NoRet

CmdIdle ==
    /\ cmd = NoCmd
    /\ cmdPc = "idle"
    /\ pending = <<>>
    /\ saveCalls = 0
    /\ steps = <<>>
    /\ out = <<>>
    /\ runs = 0

\* a server interceptor constructed with a role, no call made yet
Init ==
    /\ role \in RoleStrings
    /\ kind \in {"unary", "stream"}
    /\ FwIdle
    /\ CmdIdle

-----------------------------------------------------------------------------
(* Client side.  The invoker (streamer) is the framework's: what it returns *)
(* is an input of the interceptor, and the server's part of the same call   *)
(* is Transport followed by a server action.                                *)

ClientDone(ctx, a, iret, r) ==
    /\ cctx' = ctx
    /\ args' = a
    /\ invokerCalls' = r.calls
    /\ invokerRet' = IF r.calls = <<>> THEN NoRet ELSE iret
    /\ clientRet' = r.ret
    /\ clientPc' = IF r.calls = <<>> THEN "aborted" ELSE "returned"
    /\ UNCHANGED <<role, kind, sctx, sreq, serverPc, decoded, handlerCalls,
                   handlerRet, serverRet, cmdVars>>

ClientUnary ==
    /\ kind = "unary"
    /\ clientPc = "idle"
    /\ \E ctx \in ClientContexts, a \in CallArgs, iret \in InvokerResults :
         ClientDone(ctx, a, iret, AppendIdentityToOutgoingUnaryContext(ctx, a, iret))

ClientStream ==
    /\ kind = "stream"
    /\ clientPc = "idle"
    /\ \E ctx \in ClientContexts, a \in CallArgs, iret \in StreamerResults :
         ClientDone(ctx, a, iret, AppendIdentityToOutgoingStreamContext(ctx, a, iret))

-----------------------------------------------------------------------------
(* Between client and server *)

\* the call the invoker was given reaches the server: the outgoing metadata
\* of its context is the incoming metadata of the server's context
Transport ==
    /\ serverPc = "waiting"
    /\ Len(invokerCalls) = 1
    /\ sctx' = Ctx(NoIdentity, MD(invokerCalls[1].ctx.outgoing.kvs), NoMD)
    /\ sreq' = invokerCalls[1].args
    /\ serverPc' = "arrived"
    /\ UNCHANGED <<role, kind, cctx, args, clientPc, invokerCalls, invokerRet,
                   clientRet, decoded, handlerCalls, handlerRet, serverRet, cmdVars>>

\* a call from a client that does not use the outgoing interceptors
RawCall ==
    /\ serverPc = "waiting"
    /\ clientPc = "idle"
    /\ \E md \in RawMDs, a \in CallArgs :
         /\ sctx' = Ctx(NoIdentity, md, NoMD)
         /\ sreq' = a
    /\ serverPc' = "arrived"
    /\ clientPc' = "absent"
    /\ UNCHANGED <<role, kind, cctx, args, invokerCalls, invokerRet,
                   clientRet, decoded, handlerCalls, handlerRet, serverRet, cmdVars>>

-----------------------------------------------------------------------------
(* Server side *)

ServerDone(hret, r) ==
    /\ decoded' = r.decoded
    /\ handlerCalls' = r.calls
    /\ handlerRet' = IF r.calls = <<>> THEN NoRet ELSE hret
    /\ serverRet' = r.ret
    /\ serverPc' = "done"
    /\ UNCHANGED <<role, kind, cctx, args, clientPc, invokerCalls, invokerRet,
                   clientRet, sctx, sreq, cmdVars>>

\* the server stream of the call: its context is the incoming context
ServerStreamOf(ctx) == [ctx |-> ctx]

ServerUnary ==
    /\ kind = "unary"
    /\ serverPc = "arrived"
    /\ \E hret \in UnaryHandlerResults :
         ServerDone(hret, GrantAccessForUnaryRequest(role, sctx, sreq, hret))

ServerStream ==
    /\ kind = "stream"
    /\ serverPc = "arrived"
    /\ \E hret \in StreamHandlerResults :
         ServerDone(hret, GrantAccessForStreamRequest(role, sreq, ServerStreamOf(sctx), hret))

Next ==
    \/ ClientUnary
    \/ ClientStream
    \/ Transport
    \/ RawCall
    \/ ServerUnary
    \/ ServerStream

Spec == Init /\ [][Next]_vars

-----------------------------------------------------------------------------
(* Command handlers: a handler runs to its send on out, where it waits for *)
(* the receiver                                                            *)

CountSaves(s) == Len(SelectSeq(s, LAMBDA x : x.f = "repository.Save"))

Handle(name, c, env, r) ==
    /\ cmdPc \in {"idle", "done"}
    /\ runs < MaxRuns
    /\ runs' = runs + 1
    /\ cmd' = [handler |-> name, c |-> c, env |-> env]
    /\ steps' = r.steps
    /\ saveCalls' = CountSaves(r.steps)
    /\ pending' = r.sends
    /\ out' = <<>>
    /\ cmdPc' = IF r.sends = <<>> THEN "done" ELSE "sending"
    /\ UNCHANGED fwVars

HandleChangeEmailAddress ==
    \E c \in [ID : UserIDs, Email : Emails], env \in Envs :
        Handle("ChangeEmailAddress", c, env, OnChangeEmailAddress(c, env))

HandleRegisterWithEmail ==
    \E c \in [Email : Emails], env \in Envs :
        Handle("RegisterWithEmail", c, env, OnRegisterWithEmail(c, env))

HandleRegisterWithFacebook ==
    \E c \in [Email : Emails], env \in Envs :
        Handle("RegisterWithFacebook", c, env, OnRegisterWithFacebook(c, env))

HandleRegisterWithGoogle ==
    \E c \in [Email : Emails], env \in Envs :
        Handle("RegisterWithGoogle", c, env, OnRegisterWithGoogle(c, env))

\* the receiver takes the value the handler is sending
Receive ==
    /\ cmdPc = "sending"
    /\ out' = Append(out, Head(pending))
    /\ pending' = Tail(pending)
    /\ cmdPc' = IF Tail(pending) = <<>> THEN "done" ELSE "sending"
    /\ UNCHANGED <<cmd, saveCalls, steps, runs, fwVars>>

InitCmd ==
    /\ role = <<"a">>
    /\ kind = "unary"
    /\ FwIdle
    /\ CmdIdle

NextCmd ==
    \/ HandleChangeEmailAddress
    \/ HandleRegisterWithEmail
    \/ HandleRegisterWithFacebook
    \/ HandleRegisterWithGoogle
    \/ Receive

SpecCmd == InitCmd /\ [][NextCmd]_vars

\* the receiver is there: a value being sent is eventually taken
FairSpecCmd == SpecCmd /\ WF_vars(Receive)

-----------------------------------------------------------------------------
(* What a finished server call shows *)

\* the values under "identity" in the incoming metadata of the call
Values ==
    IF sctx.incoming.present THEN Get(sctx.incoming.kvs, mdIdentityKey) ELSE <<>>

\* the first value decoded
First == Unmarshal(Values[1], ZeroIdentity)

SomeRoleIs(i, r) == \E k \in 1..Len(i.Roles.elems) : i.Roles.elems[k] = r

ServerFinished == serverPc = "done"

ClientFinished == clientPc \in {"returned", "aborted"}

HandlerNeverInvoked == handlerCalls = <<>> /\ handlerRet = NoRet

\* the server call is the one the outgoing interceptor made
SameCall ==
    /\ ServerFinished
    /\ Len(invokerCalls) = 1
    /\ sctx.incoming.kvs = invokerCalls[1].ctx.outgoing.kvs
    /\ sreq = invokerCalls[1].args

ValidString(s) == \A k \in 1..Len(s) : s[k] # BAD

ValidUTF8(i) ==
    /\ ValidString(i.Attrs.s)
    /\ \A k \in 1..Len(i.Roles.elems) : ValidString(i.Roles.elems[k])

-----------------------------------------------------------------------------
(* Claims *)

\* C1: when the first value under "identity" of a unary call decodes to an
\* identity with a role equal to the required role, the handler is invoked
\* exactly once, with the request and with a context that carries the decoded
\* identity, and the interceptor returns the handler's response and error.
C1_UnaryAllow ==
    (ServerFinished /\ kind = "unary" /\ Values # <<>>
        /\ First.err = Nil /\ SomeRoleIs(First.i, role))
    => /\ Len(handlerCalls) = 1
       /\ handlerCalls[1].ctx = ContextWithIdentity(sctx, First.i)
       /\ handlerCalls[1].req = sreq
       /\ serverRet = handlerRet
       /\ handlerRet \in UnaryHandlerResults

C1_Witness ==
    /\ ServerFinished /\ kind = "unary" /\ Values # <<>>
    /\ First.err = Nil /\ SomeRoleIs(First.i, role)
    /\ Len(First.i.Roles.elems) = 2 /\ First.i.Roles.elems[1] # role
    /\ Len(handlerCalls) = 1
    /\ serverRet = [resp |-> "partial", err |-> "handler error"]

\* C2: when the decoded identity has no role exactly equal to the required
\* role (no roles at all included), the unary and the stream interceptor
\* return ErrInvalidRole and the handler is never invoked.
C2_NoRoleDenied ==
    (ServerFinished /\ Values # <<>> /\ First.err = Nil /\ ~SomeRoleIs(First.i, role))
    => /\ HandlerNeverInvoked
       /\ serverRet.err = ErrInvalidRole
       /\ kind = "unary" => serverRet.resp = Nil

\* a role that differs from the required one by case only
C2_Witness ==
    /\ ServerFinished /\ kind = "stream" /\ Values # <<>>
    /\ First.err = Nil /\ ~SomeRoleIs(First.i, role)
    /\ \E k \in 1..Len(First.i.Roles.elems) :
           Fold(First.i.Roles.elems[k]) = Fold(role)
    /\ serverRet.err = ErrInvalidRole

\* C3: a call without incoming metadata, or without a value under
\* "identity", is answered with ErrInvalidRole; nothing is decoded and the
\* handler is never invoked.
C3_NoIdentityDenied ==
    (ServerFinished /\ Values = <<>>)
    => /\ decoded = <<>>
       /\ HandlerNeverInvoked
       /\ serverRet.err = ErrInvalidRole

C3_Witness ==
    /\ ServerFinished /\ Values = <<>>
    /\ sctx.incoming.present /\ sctx.incoming.kvs # <<>>
    /\ serverRet.err = ErrInvalidRole

\* C4: when the first value under "identity" fails to decode, the
\* interceptor returns the decode error, which is not ErrInvalidRole, and
\* the handler is never invoked.
C4_DecodeError ==
    (ServerFinished /\ Values # <<>> /\ First.err # Nil)
    => /\ serverRet.err = First.err
       /\ serverRet.err # ErrInvalidRole
       /\ HandlerNeverInvoked

C4_Witness ==
    /\ ServerFinished /\ kind = "stream" /\ Values # <<>>
    /\ First.err = ErrType
    /\ serverRet.err = ErrType

\* C5: when the context carries no identity, the outgoing interceptor calls
\* the invoker (streamer) exactly once with the context and arguments it was
\* given, and returns what it returned.
C5_NoIdentityForwarded ==
    (ClientFinished /\ cctx.identity = NoIdentity)
    => /\ invokerCalls = <<[ctx |-> cctx, args |-> args]>>
       /\ clientRet = invokerRet
       /\ invokerRet # NoRet

C5_Witness ==
    /\ ClientFinished /\ cctx.identity = NoIdentity
    /\ Get(cctx.outgoing.kvs, mdIdentityKey) # <<>>
    /\ Len(invokerCalls) = 1
    /\ clientRet.err # Nil

\* C6: when the context carries an identity whose serialization fails, the
\* outgoing interceptor returns the serialization error and never calls the
\* invoker (streamer).
C6_MarshalErrorAborts ==
    (clientPc # "idle" /\ cctx.identity # NoIdentity
        /\ Marshal(cctx.identity).err # Nil)
    => /\ invokerCalls = <<>>
       /\ invokerRet = NoRet
       /\ clientRet.err = Marshal(cctx.identity).err

C6_Witness ==
    /\ clientPc = "aborted" /\ kind = "stream"
    /\ cctx.identity # NoIdentity
    /\ clientRet.err = ErrMarshal

\* what C7 says of a finished call whose identity is i
RoundTrip(i) ==
    /\ Len(decoded) = 1
    /\ Unmarshal(decoded[1], ZeroIdentity).err = Nil
    /\ Unmarshal(decoded[1], ZeroIdentity).i = i
    /\ handlerCalls # <<>> <=> SomeRoleIs(i, role)
    /\ (kind = "unary" /\ handlerCalls # <<>>) => handlerCalls[1].ctx.identity = i

AttachedAlone ==
    /\ SameCall
    /\ cctx.identity # NoIdentity
    /\ Get(cctx.outgoing.kvs, mdIdentityKey) = <<>>

\* C7 as stated: for every identity attached to a context with no prior
\* value under "identity", the value the outgoing interceptor attaches decodes
\* on the server to an equal identity, and the server allows the call exactly
\* when some role of the identity is the required role.
C7_RoundTripEveryIdentity ==
    AttachedAlone => RoundTrip(cctx.identity)

\* C7, amended: the same, for identities whose strings are valid UTF-8.
C7_RoundTripValidUTF8 ==
    (AttachedAlone /\ ValidUTF8(cctx.identity)) => RoundTrip(cctx.identity)

C7_Witness ==
    /\ AttachedAlone /\ ValidUTF8(cctx.identity)
    /\ \E k \in 1..Len(cctx.identity.Roles.elems) :
           cctx.identity.Roles.elems[k] = <<BSLASH, QUOTE>>
    /\ role = <<BSLASH, QUOTE>>
    /\ kind = "unary"
    /\ Len(handlerCalls) = 1
    /\ handlerCalls[1].ctx.identity = cctx.identity

\* the decision of a finished call
Outcome ==
    IF handlerCalls # <<>> THEN "allow"
    ELSE IF serverRet.err = ErrInvalidRole THEN "deny"
    ELSE "error"

\* the decision the required role and one value call for
Decision(r, v) ==
    LET u == Unmarshal(v, ZeroIdentity) IN
    IF u.err # Nil THEN "error"
    ELSE IF SomeRoleIs(u.i, r) THEN "allow"
    ELSE "deny"

\* C8: the decision depends on the required role and the first value under
\* "identity" only; that value alone is decoded, whatever follows it.
C8_FirstValueOnly ==
    (ServerFinished /\ Values # <<>>)
    => /\ decoded = <<Values[1]>>
       /\ Outcome = Decision(role, Values[1])
       /\ Outcome = "error" => serverRet.err = First.err

\* the outgoing interceptor appended the identity after a value that was
\* there, and the appended value alone would have decided otherwise
C8_Witness ==
    /\ SameCall
    /\ cctx.identity # NoIdentity
    /\ Get(cctx.outgoing.kvs, mdIdentityKey) # <<>>
    /\ Len(Values) = 2
    /\ Outcome = "allow"
    /\ Decision(role, Values[2]) = "deny"

\* C9: on ALLOW the stream interceptor invokes the handler with the srv and
\* the server stream it was given, whose context carries no identity, while
\* the unary interceptor, for the same metadata and role, passes the decoded
\* identity to its handler.
C9_StreamIdentityNotAttached ==
    (ServerFinished /\ kind = "stream" /\ handlerCalls # <<>>)
    => /\ handlerCalls = <<[srv |-> sreq, ss |-> ServerStreamOf(sctx)]>>
       /\ ~FromContext(handlerCalls[1].ss.ctx).ok
       /\ serverRet = handlerRet
       /\ \A h \in UnaryHandlerResults :
            LET g == GrantAccessForUnaryRequest(role, sctx, sreq, h) IN
            /\ Len(g.calls) = 1
            /\ FromContext(g.calls[1].ctx) = [ok |-> TRUE, i |-> First.i]

C9_Witness ==
    /\ ServerFinished /\ kind = "stream" /\ Len(handlerCalls) = 1
    /\ SameCall
    /\ cctx.identity # NoIdentity
    /\ ~FromContext(handlerCalls[1].ss.ctx).ok

\* the step of the running handler that failed first, if any
EarlierError ==
    IF cmd.handler # "ChangeEmailAddress" /\ cmd.env.idErr # Nil THEN cmd.env.idErr
    ELSE cmd.env.aggErr

C10_Safety ==
    /\ cmdPc = "sending" => (Len(pending) = 1 /\ out = <<>>)
    /\ cmdPc = "done" => (pending = <<>> /\ Len(out) = 1)
    /\ saveCalls <= 1
    /\ saveCalls = CountSaves(steps)
    /\ (cmd # NoCmd /\ saveCalls = 1) =>
          /\ EarlierError = Nil
          /\ steps[Len(steps)].f = "repository.Save"
          /\ cmd.handler # "ChangeEmailAddress" => steps[1].f = "uuid.NewRandom"
          /\ pending \o out = <<cmd.env.saveErr>>
    /\ (cmd # NoCmd /\ EarlierError # Nil) =>
          /\ saveCalls = 0
          /\ pending \o out = <<EarlierError>>

\* C10: every invocation of a user command handler sends exactly one value on
\* out, which the receiver gets; repository.Save is called at most once, only
\* after id generation and the aggregate method returned no error, and when
\* one of them fails its error is the value sent and Save is not called.
C10_OneReply ==
    /\ []C10_Safety
    /\ (cmdPc = "sending") ~> (cmdPc = "done" /\ Len(out) = 1)

C10_Witness ==
    /\ cmdPc = "done"
    /\ cmd.handler = "RegisterWithFacebook"
    /\ cmd.env.idErr = Nil
    /\ cmd.env.aggErr # Nil
    /\ out = <<cmd.env.aggErr>>
    /\ saveCalls = 0
    /\ runs = 2

====
